---- MODULE Spec2Model ----
(***************************************************************************)
(* State-machine model of libsharp/sharp_geomhelpers.c: the five geometry  *)
(* builders (HEALPix, weighted HEALPix, Gauss, ECP, Driscoll-Healy/hw),    *)
(* the Gauss-Legendre Newton solver and the two closed-form weight tables. *)
(*                                                                         *)
(* Doubles are not computed.  A double is a record [t, a, b, c]: a tag     *)
(* naming the expression that produced it and up to three integers the     *)
(* expression depends on.  Divisions keep their zero-divisor cases ("nan", *)
(* "nonfinite").  A per-ring array is the partial map of the elements that *)
(* have been written so far; the heap records RALLOC and DEALLOC counts.   *)
(***************************************************************************)
EXTENDS Integers, Sequences, FiniteSets, TLC

\* ---- bounds of the model ------------------------------------------------
MaxNside  == 3
MaxRings  == 4
MaxNphi   == 2
MaxStride == 2

\* ---- program constants --------------------------------------------------
\* UTIL_ASSERT(++j<100, ...) in gauss_legendre_tbl
MaxIter == 100

\* Rounding residual of a converged Newton iterate, in units of the last
\* representable step: the iterate is the exact root plus a residual.
Residual == {-1, 0, 1}

ArrayNames == {"theta", "weight_", "nph", "phi0", "ofs", "stride_"}

VARIABLES
    pc,          \* position in the running call
    fn,          \* builder being run
    wrapper,     \* TRUE when the weighted HEALPix builder was entered from sharp_make_healpix_geom_info
    nside, stride,                      \* HEALPix arguments
    nrings, nphi, stride_lon, stride_lat, \* ring count, pixels per ring (nphi/ppring), strides
    weight,      \* HEALPix: the caller's per-latitude weight array (length 2*nside)
    theta, weight_, nph, phi0, ofs, stride_,  \* per-ring arrays: written elements only
    heap,        \* array name -> [alloc, free] counts
    m,           \* ring loop index
    geom,        \* sequence of argument records handed to sharp_make_geom_info
    outcome,     \* "none", "ok", "ConfigError", "ConvergenceError"
    i, j, dobreak, x0,     \* gauss_legendre_tbl locals
    passes, conv, lastSmall \* history: passes of the current node, first pass with |dx|<=eps, last |dx|<=eps

vars == <<pc, fn, wrapper, nside, stride, nrings, nphi, stride_lon, stride_lat,
          weight, theta, weight_, nph, phi0, ofs, stride_, heap, m, geom,
          outcome, i, j, dobreak, x0, passes, conv, lastSmall>>

args   == <<nside, stride, nrings, nphi, stride_lon, stride_lat, weight>>
arrays == <<theta, weight_, nph, phi0, ofs, stride_>>
glvars == <<i, j, dobreak, x0, passes, conv, lastSmall>>

\* ---- doubles and arrays -------------------------------------------------
D(t, a, b, c) == [t |-> t, a |-> a, b |-> b, c |-> c]

Neg(d) == [d EXCEPT !.a = -@, !.b = -@]

Finite(d) == d.t \notin {"nan", "nonfinite", "indeterminate"}

Empty == [k \in {} |-> 0]

Put(arr, k, v) == [x \in (DOMAIN arr) \cup {k} |-> IF x = k THEN v ELSE arr[x]]

\* read of a double element; an element never written is indeterminate
Get(arr, k) == IF k \in DOMAIN arr THEN arr[k] ELSE D("indeterminate", 0, 0, 0)

\* ---- heap ---------------------------------------------------------------
NoHeap == [a \in ArrayNames \cup {"weight"} |-> [alloc |-> 0, free |-> 0]]

RALLOC(h, names) == [a \in DOMAIN h |-> IF a \in names THEN [h[a] EXCEPT !.alloc = @ + 1] ELSE h[a]]

DEALLOC(h, names) == [a \in DOMAIN h |-> IF a \in names THEN [h[a] EXCEPT !.free = @ + 1] ELSE h[a]]

Live(h) == {a \in DOMAIN h : h[a].alloc > h[a].free}

\* ---- the assembler (external): records what it is handed -----------------
sharp_make_geom_info(n) ==
    Append(geom, [nrings |-> n, nph |-> nph, ofs |-> ofs, stride |-> stride_,
                  phi0 |-> phi0, theta |-> theta, weight |-> weight_])

Init ==
    /\ pc = "idle" /\ fn = "none" /\ wrapper = FALSE
    /\ nside = 0 /\ stride = 0 /\ nrings = 0 /\ nphi = 0
    /\ stride_lon = 0 /\ stride_lat = 0
    /\ weight = Empty
    /\ theta = Empty /\ weight_ = Empty /\ nph = Empty
    /\ phi0 = Empty /\ ofs = Empty /\ stride_ = Empty
    /\ heap = NoHeap
    /\ m = 0
    /\ geom = <<>>
    /\ outcome = "none"
    /\ i = 0 /\ j = 0 /\ dobreak = 0 /\ x0 = D("none", 0, 0, 0)
    /\ passes = 0 /\ conv = 0 /\ lastSmall = FALSE

\* ---- HEALPix ------------------------------------------------------------
Npix(ns) == ns * ns * 12

Ncap(ns) == 2 * ns * (ns - 1)

\* one ring too many
HealpixNrings_OffByOne(ns) == 4 * ns

HealpixNrings(ns) == 4 * ns - 1

\* the fold applied one ring too late
Northring_LateFold(ring, ns) == IF ring > 2 * ns + 1 THEN 4 * ns - ring ELSE ring

Northring(ring, ns) == IF ring > 2 * ns THEN 4 * ns - ring ELSE ring

\* ring m of the weighted HEALPix builder, before the southern mirror
CapNph(northring) == 4 * northring

BeltNph(ns) == 4 * ns

CapOfs(northring, st) == 2 * northring * (northring - 1) * st

BeltOfs(northring, ns, st) == (Ncap(ns) + (northring - ns) * BeltNph(ns)) * st

\* the mirror taken from the end of the array without the ring's own width
SouthOfs_NoWidth(o, np, ns, st) == Npix(ns) * st - o

SouthOfs(o, np, ns, st) == (Npix(ns) - np) * st - o

\* sharp_make_healpix_geom_info: RALLOC(weight, 2*nside), SET_ARRAY(..., 1),
\* then enters the weighted builder
sharp_make_healpix_geom_info ==
    /\ pc = "idle"
    /\ \E ns \in 1..MaxNside, st \in 1..MaxStride :
        /\ nside' = ns /\ stride' = st
        /\ weight' = [k \in 0..(2 * ns - 1) |-> D("one", 0, 0, 0)]
    /\ heap' = RALLOC(heap, {"weight"})
    /\ fn' = "healpix" /\ wrapper' = TRUE
    /\ pc' = "whp_enter"
    /\ UNCHANGED <<nrings, nphi, stride_lon, stride_lat, arrays, m, geom, outcome, glvars>>

\* direct call of sharp_make_weighted_healpix_geom_info with a caller's array
\* of 2*nside distinct weights
WeightedHealpixCall ==
    /\ pc = "idle"
    /\ \E ns \in 1..MaxNside, st \in 1..MaxStride :
        /\ nside' = ns /\ stride' = st
        /\ weight' = [k \in 0..(2 * ns - 1) |-> D("userweight", k, 0, 0)]
    /\ fn' = "whealpix" /\ wrapper' = FALSE
    /\ pc' = "whp_enter"
    /\ UNCHANGED <<nrings, nphi, stride_lon, stride_lat, arrays, heap, m, geom, outcome, glvars>>

\* npix, ncap, nrings and the six RALLOCs
WhpEnter ==
    /\ pc = "whp_enter"
    /\ nrings' = HealpixNrings(nside)
    /\ heap' = RALLOC(heap, ArrayNames)
    /\ m' = 0
    /\ pc' = "whp_loop"
    /\ UNCHANGED <<fn, wrapper, nside, stride, nphi, stride_lon, stride_lat, weight,
                   arrays, geom, outcome, glvars>>

\* one iteration of the ring loop
WhpRing ==
    /\ pc = "whp_loop" /\ m < nrings
    /\ LET ring      == m + 1
           northring == Northring(ring, nside)
           cap       == northring < nside
           south     == northring # ring
           np        == IF cap THEN CapNph(northring) ELSE BeltNph(nside)
           th        == IF cap THEN D("2asin(a/(sqrt6*b))", northring, nside, 0)
                               ELSE D("acos(a*8b/c)", 2 * nside - northring, nside, Npix(nside))
           ph        == IF cap THEN D("pi/a", np, 0, 0)
                               ELSE IF (northring - nside) % 2 = 1 THEN D("zero", 0, 0, 0)
                                                                   ELSE D("pi/a", np, 0, 0)
           o         == IF cap THEN CapOfs(northring, stride)
                               ELSE BeltOfs(northring, nside, stride)
           uw        == Get(weight, northring - 1)
       IN  /\ stride_' = Put(stride_, m, stride)
           /\ nph' = Put(nph, m, np)
           /\ phi0' = Put(phi0, m, ph)
           /\ theta' = Put(theta, m, IF south THEN [th EXCEPT !.t = "pi-" \o @] ELSE th)
           /\ ofs' = Put(ofs, m, IF south THEN SouthOfs(o, np, nside, stride) ELSE o)
           /\ weight_' = Put(weight_, m, [uw EXCEPT !.t = "4pi/c*" \o @, !.c = Npix(nside)])
    /\ m' = m + 1
    /\ UNCHANGED <<pc, fn, wrapper, args, heap, geom, outcome, glvars>>

WhpAssemble ==
    /\ pc = "whp_loop" /\ ~(m < nrings)
    /\ geom' = sharp_make_geom_info(nrings)
    /\ pc' = "dealloc"
    /\ UNCHANGED <<fn, wrapper, args, arrays, heap, m, outcome, glvars>>

\* the six DEALLOCs that end every builder
Dealloc ==
    /\ pc = "dealloc"
    /\ heap' = DEALLOC(heap, ArrayNames)
    /\ IF wrapper THEN pc' = "hp_dealloc" /\ outcome' = outcome
                  ELSE pc' = "done" /\ outcome' = "ok"
    /\ UNCHANGED <<fn, wrapper, args, arrays, m, geom, glvars>>

\* DEALLOC(weight) in sharp_make_healpix_geom_info
HpDealloc ==
    /\ pc = "hp_dealloc"
    /\ heap' = DEALLOC(heap, {"weight"})
    /\ pc' = "done" /\ outcome' = "ok"
    /\ UNCHANGED <<fn, wrapper, args, arrays, m, geom, glvars>>

\* ---- gauss_legendre_tbl --------------------------------------------------
\* m = (n+1)>>1
GlM(n) == (n + 1) \div 2

\* the exact root the Newton iteration of node i converges to: 0 for the
\* middle node of an odd order (cos(pi/2) seed), positive otherwise
RootId(ii, n) == IF 2 * ii = n + 1 THEN 0 ELSE ii

\* leaving on the pass that detects convergence
BreakNow_Early(db, small) == db = 1 \/ small

\* if (dobreak) break;
BreakNow(db, small) == db = 1

\* if (fabs(dx)<=eps) dobreak=1;
NextDobreak(db, small) == IF small THEN 1 ELSE db

\* one pass too many allowed
ConvergenceAssert_OffByOne(jj) == jj <= MaxIter

\* UTIL_ASSERT(++j<100,"convergence problem")
ConvergenceAssert(jj) == jj < MaxIter

\* for (i=1; i<=m; ++i): seed x0, dobreak=0, j=0
GlNode ==
    /\ pc = "gl_for" /\ i <= GlM(nrings)
    /\ x0' = D("iterate", i, 0, 0)
    /\ dobreak' = 0 /\ j' = 0
    /\ passes' = 0 /\ conv' = 0 /\ lastSmall' = FALSE
    /\ pc' = "gl_while"
    /\ UNCHANGED <<fn, wrapper, args, arrays, heap, m, geom, outcome, i>>

\* one pass of while(1): recurrence, Newton step x0 = x1, then the break test,
\* the convergence test on this pass's dx and the pass-count assertion.
\* small is the truth of fabs(dx)<=eps on this pass.
GlPass ==
    /\ pc = "gl_while"
    /\ \E small \in BOOLEAN :
        /\ x0' = [x0 EXCEPT !.b = @ + 1]
        /\ passes' = passes + 1
        /\ lastSmall' = small
        /\ IF BreakNow(dobreak, small)
           THEN /\ pc' = "gl_assign"
                /\ UNCHANGED <<dobreak, j, conv, outcome>>
           ELSE /\ dobreak' = NextDobreak(dobreak, small)
                /\ conv' = IF small /\ conv = 0 THEN passes + 1 ELSE conv
                /\ j' = j + 1
                /\ IF ConvergenceAssert(j + 1)
                   THEN pc' = "gl_while" /\ outcome' = outcome
                   ELSE pc' = "done" /\ outcome' = "ConvergenceError"
    /\ UNCHANGED <<fn, wrapper, args, arrays, heap, m, geom, i>>

\* x[i-1] = -x0; x[n-i] = x0; w[i-1] = w[n-i] = 2/((1-x0*x0)*dpdx*dpdx)
\* (x is theta and w is weight in the Gauss builder).  The final iterate is
\* the node's exact root plus a rounding residual.
GlStore(x, ii, n, v) == Put(Put(x, ii - 1, Neg(v)), n - ii, v)

GlAssign ==
    /\ pc = "gl_assign"
    /\ \E r \in Residual :
        LET v == D("x", RootId(i, nrings), r, 0)
            w == D("2/((1-x*x)*dpdx^2)", RootId(i, nrings), r, 0)
        IN  /\ theta' = GlStore(theta, i, nrings, v)
            /\ weight_' = Put(Put(weight_, i - 1, w), nrings - i, w)
    /\ i' = i + 1
    /\ pc' = "gl_for"
    /\ UNCHANGED <<fn, wrapper, args, nph, phi0, ofs, stride_, heap, m, geom, outcome,
                   j, dobreak, x0, passes, conv, lastSmall>>

\* the for loop ends and gauss_legendre_tbl returns to the Gauss builder
GlReturn ==
    /\ pc = "gl_for" /\ ~(i <= GlM(nrings))
    /\ m' = 0
    /\ pc' = "gauss_loop"
    /\ UNCHANGED <<fn, wrapper, args, arrays, heap, geom, outcome, glvars>>

\* ---- Gauss builder --------------------------------------------------------
\* weight *= 2*pi/nphi
TimesTwoPiOver(w, np) ==
    IF ~Finite(w) THEN w
    ELSE IF np = 0 THEN D("nonfinite", 0, 0, 0)
    ELSE [w EXCEPT !.t = @ \o "*2pi/c", !.c = np]

\* entry, the six RALLOCs and the call of gauss_legendre_tbl(nrings,theta,weight)
sharp_make_gauss_geom_info ==
    /\ pc = "idle"
    /\ \E nr \in 0..MaxRings, np \in 0..MaxNphi, sl \in 1..MaxStride, st \in 1..MaxStride :
        /\ nrings' = nr /\ nphi' = np /\ stride_lon' = sl /\ stride_lat' = st
    /\ fn' = "gauss" /\ wrapper' = FALSE
    /\ heap' = RALLOC(heap, ArrayNames)
    /\ i' = 1
    /\ pc' = "gl_for"
    /\ UNCHANGED <<nside, stride, weight, arrays, m, geom, outcome,
                   j, dobreak, x0, passes, conv, lastSmall>>

GaussRing ==
    /\ pc = "gauss_loop" /\ m < nrings
    /\ theta' = Put(theta, m, [Neg(Get(theta, m)) EXCEPT !.t = "acos(" \o @ \o ")"])
    /\ nph' = Put(nph, m, nphi)
    /\ phi0' = Put(phi0, m, D("zero", 0, 0, 0))
    /\ ofs' = Put(ofs, m, m * stride_lat)
    /\ stride_' = Put(stride_, m, stride_lon)
    /\ weight_' = Put(weight_, m, TimesTwoPiOver(Get(weight_, m), nphi))
    /\ m' = m + 1
    /\ UNCHANGED <<pc, fn, wrapper, args, heap, geom, outcome, glvars>>

GaussAssemble ==
    /\ pc = "gauss_loop" /\ ~(m < nrings)
    /\ geom' = sharp_make_geom_info(nrings)
    /\ pc' = "dealloc"
    /\ UNCHANGED <<fn, wrapper, args, arrays, heap, m, outcome, glvars>>

\* ---- ECP builder ----------------------------------------------------------
\* makeweights(bw, weights): weights[j] for j = 0..2*bw-1
makeweights(bw, weights) ==
    [k \in (DOMAIN weights) \cup (0..(2 * bw - 1)) |->
        IF k \in 0..(2 * bw - 1) THEN D("makeweights", k, bw, 0) ELSE weights[k]]

\* the parity assertion dropped
EcpParityAssert_Dropped(nr) == TRUE

\* UTIL_ASSERT((nrings&1)==0, ...)
EcpParityAssert(nr) == nr % 2 = 0

sharp_make_ecp_geom_info ==
    /\ pc = "idle"
    /\ \E nr \in 0..MaxRings, np \in 0..MaxNphi, sl \in 1..MaxStride, st \in 1..MaxStride :
        /\ nrings' = nr /\ nphi' = np /\ stride_lon' = sl /\ stride_lat' = st
    /\ fn' = "ecp" /\ wrapper' = FALSE
    /\ heap' = RALLOC(heap, ArrayNames)
    /\ pc' = "ecp_check"
    /\ UNCHANGED <<nside, stride, weight, arrays, m, geom, outcome, glvars>>

\* the parity assertion, then makeweights(nrings/2, weight)
EcpCheck ==
    /\ pc = "ecp_check"
    /\ IF EcpParityAssert(nrings)
       THEN /\ weight_' = makeweights(nrings \div 2, weight_)
            /\ m' = 0
            /\ pc' = "ecp_loop"
            /\ outcome' = outcome
       ELSE /\ pc' = "done"
            /\ outcome' = "ConfigError"
            /\ UNCHANGED <<weight_, m>>
    /\ UNCHANGED <<fn, wrapper, args, theta, nph, phi0, ofs, stride_, heap, geom, glvars>>

EcpRing ==
    /\ pc = "ecp_loop" /\ m < nrings
    /\ theta' = Put(theta, m, D("(a+0.5)*pi/b", m, nrings, 0))
    /\ nph' = Put(nph, m, nphi)
    /\ phi0' = Put(phi0, m, D("phi0", 0, 0, 0))
    /\ ofs' = Put(ofs, m, m * stride_lat)
    /\ stride_' = Put(stride_, m, stride_lon)
    /\ weight_' = Put(weight_, m, TimesTwoPiOver(Get(weight_, m), nphi))
    /\ m' = m + 1
    /\ UNCHANGED <<pc, fn, wrapper, args, heap, geom, outcome, glvars>>

EcpAssemble ==
    /\ pc = "ecp_loop" /\ ~(m < nrings)
    /\ geom' = sharp_make_geom_info(nrings)
    /\ pc' = "dealloc"
    /\ UNCHANGED <<fn, wrapper, args, arrays, heap, m, outcome, glvars>>

\* ---- Driscoll-Healy (hw) builder -------------------------------------------
\* eps(j,J) in halves: 1 is 0.5, 2 is 1., 0 is 0.
eps(jj, J) == IF jj = 0 \/ jj = J THEN 1 ELSE IF jj > 0 /\ jj < J THEN 2 ELSE 0

\* UTIL_ASSERT((nrings&1)==1, ...)
HwParityAssert(nr) == nr % 2 = 1

Lmax(nr) == (nr - 1) \div 2

\* theta[m]=pi*m/(nrings-1.) with the two clamps; 0/0 is NaN and no
\* comparison with NaN is true, so NaN passes both clamps unchanged
HwTheta(mm, nr) ==
    IF nr - 1 = 0
    THEN IF mm = 0 THEN D("nan", 0, 0, 0) ELSE D("nonfinite", 0, 0, 0)
    ELSE IF (mm <= 0) = (nr - 1 > 0) \/ mm = 0 THEN D("1e-15", 0, 0, 0)
    ELSE IF mm >= nr - 1 /\ nr - 1 > 0 THEN D("pi-1e-15", 0, 0, 0)
    ELSE D("pi*a/b", mm, nr - 1, 0)

\* weight[m]=prefac*wgt/nph[m], prefac = 4*pi*eps(m,2*lmax)/lmax,
\* wgt = sum over l=0..lmax of eps(l,lmax)/(1-4*l*l)*cos((pi*m*l)/lmax).
\* lmax = 0 makes the cosine argument 0/0, so wgt is NaN; nph[m] = 0 divides
\* a finite product by zero.
HwWeight(mm, lmax, np) ==
    IF lmax = 0 THEN D("nan", 0, 0, 0)
    ELSE IF np = 0 THEN D("nonfinite", 0, 0, 0)
    ELSE IF eps(mm, 2 * lmax) = 0 THEN D("zero", 0, 0, 0)
    ELSE IF eps(mm, 2 * lmax) = 1 THEN D("0.5*4pi/b*wgt(a,b)/c", mm, lmax, np)
    ELSE D("4pi/b*wgt(a,b)/c", mm, lmax, np)

sharp_make_hw_geom_info ==
    /\ pc = "idle"
    /\ \E nr \in 0..MaxRings, np \in 0..MaxNphi, sl \in 1..MaxStride, st \in 1..MaxStride :
        /\ nrings' = nr /\ nphi' = np /\ stride_lon' = sl /\ stride_lat' = st
    /\ fn' = "hw" /\ wrapper' = FALSE
    /\ heap' = RALLOC(heap, ArrayNames)
    /\ pc' = "hw_check"
    /\ UNCHANGED <<nside, stride, weight, arrays, m, geom, outcome, glvars>>

HwCheck ==
    /\ pc = "hw_check"
    /\ IF HwParityAssert(nrings)
       THEN /\ m' = 0
            /\ pc' = "hw_loop"
            /\ outcome' = outcome
       ELSE /\ pc' = "done"
            /\ outcome' = "ConfigError"
            /\ m' = m
    /\ UNCHANGED <<fn, wrapper, args, arrays, heap, geom, glvars>>

HwRing ==
    /\ pc = "hw_loop" /\ m < nrings
    /\ theta' = Put(theta, m, HwTheta(m, nrings))
    /\ nph' = Put(nph, m, nphi)
    /\ phi0' = Put(phi0, m, D("phi0", 0, 0, 0))
    /\ ofs' = Put(ofs, m, m * stride_lat)
    /\ stride_' = Put(stride_, m, stride_lon)
    /\ weight_' = Put(weight_, m, HwWeight(m, Lmax(nrings), nphi))
    /\ m' = m + 1
    /\ UNCHANGED <<pc, fn, wrapper, args, heap, geom, outcome, glvars>>

HwAssemble ==
    /\ pc = "hw_loop" /\ ~(m < nrings)
    /\ geom' = sharp_make_geom_info(nrings)
    /\ pc' = "dealloc"
    /\ UNCHANGED <<fn, wrapper, args, arrays, heap, m, outcome, glvars>>

\* a builder returned normally; the caller may call another one
Return ==
    /\ pc = "done" /\ outcome = "ok"
    /\ pc' = "idle" /\ fn' = "none" /\ wrapper' = FALSE
    /\ nside' = 0 /\ stride' = 0 /\ nrings' = 0 /\ nphi' = 0
    /\ stride_lon' = 0 /\ stride_lat' = 0
    /\ weight' = Empty
    /\ theta' = Empty /\ weight_' = Empty /\ nph' = Empty
    /\ phi0' = Empty /\ ofs' = Empty /\ stride_' = Empty
    /\ heap' = NoHeap
    /\ m' = 0
    /\ geom' = <<>>
    /\ outcome' = "none"
    /\ i' = 0 /\ j' = 0 /\ dobreak' = 0 /\ x0' = D("none", 0, 0, 0)
    /\ passes' = 0 /\ conv' = 0 /\ lastSmall' = FALSE

Next ==
    \/ sharp_make_healpix_geom_info
    \/ WeightedHealpixCall
    \/ WhpEnter
    \/ WhpRing
    \/ WhpAssemble
    \/ Dealloc
    \/ HpDealloc
    \/ sharp_make_gauss_geom_info
    \/ GlNode
    \/ GlPass
    \/ GlAssign
    \/ GlReturn
    \/ GaussRing
    \/ GaussAssemble
    \/ sharp_make_ecp_geom_info
    \/ EcpCheck
    \/ EcpRing
    \/ EcpAssemble
    \/ sharp_make_hw_geom_info
    \/ HwCheck
    \/ HwRing
    \/ HwAssemble
    \/ Return

Spec == Init /\ [][Next]_vars

\* ---- properties -----------------------------------------------------------
NoArrayWritten ==
    /\ theta = Empty /\ weight_ = Empty /\ nph = Empty
    /\ phi0 = Empty /\ ofs = Empty /\ stride_ = Empty

IsHealpix == fn \in {"healpix", "whealpix"}

RECURSIVE SumBelow(_, _)
\* f[0] + ... + f[n-1]
SumBelow(f, n) == IF n <= 0 THEN 0 ELSE f[n - 1] + SumBelow(f, n - 1)

\* C1: the ECP builder called with an odd nrings and the Driscoll-Healy
\* builder called with an even nrings end in ConfigError; the assembler is
\* never invoked and no element of a per-ring array is ever written.
C1_ParityFailsFast ==
    ((fn = "ecp" /\ nrings % 2 = 1) \/ (fn = "hw" /\ nrings % 2 = 0)) =>
        /\ geom = <<>>
        /\ NoArrayWritten
        /\ pc \in {"ecp_check", "hw_check", "done"}
        /\ outcome \in {"none", "ConfigError"}
        /\ (pc = "done" => outcome = "ConfigError")

C1_Witness ==
    /\ fn = "ecp" /\ nrings = 3 /\ pc = "done" /\ outcome = "ConfigError"
    /\ Live(heap) = ArrayNames

\* C2: a builder called with a non-positive count ends in ConfigError before
\* any per-ring array is populated and never invokes the assembler.
NonPositiveCount ==
    \/ (IsHealpix /\ nside <= 0)
    \/ (fn \in {"gauss", "ecp", "hw"} /\ (nrings <= 0 \/ nphi <= 0))

C2_NonPositiveRejected ==
    NonPositiveCount =>
        /\ geom = <<>>
        /\ NoArrayWritten
        /\ outcome \in {"none", "ConfigError"}

\* C3: when a builder call has ended, on the success path or on a failure
\* path, every array it allocated has been released exactly once and none
\* is still allocated.
C3_AllReleasedAtExit ==
    pc = "done" =>
        /\ Live(heap) = {}
        /\ \A a \in DOMAIN heap : heap[a].alloc = heap[a].free /\ heap[a].free <= 1

\* C4: the HEALPix builder hands the assembler 4*nside-1 rings, each with
\* nphi > 0 (4*northring in the polar caps, 4*nside in the belt), whose nphi
\* sum to 12*nside^2; nside = 1 gives 3 rings of 4 pixels.
C4_HealpixRingCounts ==
    (IsHealpix /\ geom # <<>>) =>
        LET g == geom[1]
            n == 4 * nside - 1
        IN  /\ Len(geom) = 1
            /\ g.nrings = n
            /\ DOMAIN g.nph = 0..(n - 1)
            /\ \A k \in 0..(n - 1) :
                /\ g.nph[k] > 0
                /\ g.nph[k] = IF k + 1 < nside THEN 4 * (k + 1)
                              ELSE IF k + 1 > 3 * nside THEN 4 * (4 * nside - (k + 1))
                              ELSE 4 * nside
            /\ SumBelow(g.nph, n) = 12 * nside * nside
            /\ (nside = 1 => g.nph = [k \in 0..2 |-> 4])

C4_Witness ==
    /\ fn = "healpix" /\ nside = 2 /\ Len(geom) = 1
    /\ geom[1].nph[0] = 4 /\ geom[1].nph[3] = 8 /\ geom[1].nph[6] = 4

\* C5: in the Newton loop no node runs more than 100 passes; the loop fails
\* with ConvergenceError exactly when its exit pass would lie beyond pass 100
\* (convergence not observed before pass 100), a loop whose exit pass lies
\* within 100 passes succeeds, and every step of the loop adds one pass, so
\* the loop terminates.
C5_Inv ==
    /\ passes <= MaxIter
    /\ (outcome = "ConvergenceError" =>
            /\ passes = MaxIter
            /\ conv \in {0, MaxIter})
    /\ (pc = "gl_assign" => conv \in 1..(MaxIter - 1) /\ passes = conv + 1)
    /\ (pc = "gl_while" => passes < MaxIter /\ (conv # 0 => conv = passes))

C5_Variant == (pc = "gl_while") => (passes' = passes + 1 /\ pc' \in {"gl_while", "gl_assign", "done"})

C5_NewtonBounded == [](C5_Inv) /\ [][C5_Variant]_vars

C5_Witness == outcome = "ConvergenceError" /\ passes = MaxIter /\ conv = MaxIter

\* C6: for every odd nrings > 0 (and ppring > 0) the Driscoll-Healy builder
\* uses no zero divisor, succeeds, and every theta it writes lies in
\* [1e-15, pi-1e-15] and every weight is finite.
ThetaInRange(d) ==
    \/ d.t \in {"1e-15", "pi-1e-15"}
    \/ (d.t = "pi*a/b" /\ 0 < d.a /\ d.a < d.b)

C6_HwOddSucceeds ==
    (fn = "hw" /\ nrings > 0 /\ nrings % 2 = 1 /\ nphi > 0) =>
        /\ (pc = "hw_loop" /\ m < nrings => nrings - 1 # 0 /\ Lmax(nrings) # 0)
        /\ outcome \in {"none", "ok"}
        /\ \A k \in DOMAIN theta : ThetaInRange(theta[k])
        /\ \A k \in DOMAIN weight_ : Finite(weight_[k])
        /\ (geom # <<>> => geom[1].nrings = nrings /\ DOMAIN geom[1].theta = 0..(nrings - 1))

\* C7: when gauss_legendre_tbl returns, every index 0..n-1 of the node and
\* weight arrays has been assigned, and x[i] = -x[n-1-i] and w[i] = w[n-1-i]
\* for every i, the middle index of an odd n included.
C7_NodesAntisymmetric ==
    (fn = "gauss" /\ pc = "gauss_loop" /\ m = 0) =>
        /\ DOMAIN theta = 0..(nrings - 1)
        /\ DOMAIN weight_ = 0..(nrings - 1)
        /\ \A k \in 0..(nrings - 1) :
            /\ theta[k] = Neg(theta[nrings - 1 - k])
            /\ weight_[k] = weight_[nrings - 1 - k]

\* C8: in the Newton loop the update x0 := x1 is applied on every pass; if
\* |dx| <= eps is first observed on pass c, the loop is still running after
\* pass c and leaves on pass c+1, whatever the delta of pass c+1 is.
C8_ExitOnePassAfterConvergence ==
    /\ (pc \in {"gl_while", "gl_assign"} => x0.b = passes)
    /\ (pc = "gl_while" => (dobreak = 1) = (conv # 0))
    /\ (pc = "gl_while" /\ conv # 0 => passes = conv /\ lastSmall)
    /\ (pc = "gl_assign" => conv # 0 /\ passes = conv + 1 /\ x0.b = conv + 1)

C8_Witness == pc = "gl_assign" /\ conv = 2 /\ passes = 3 /\ ~lastSmall

\* C9: the HEALPix ring offsets tile the pixel array north to south:
\* offset[m] = stride * (nphi[0] + ... + nphi[m-1]) for every ring, the
\* mirrored southern rings included; with stride 1 the ranges
\* offset[m]..offset[m]+nphi[m]-1 are pairwise disjoint and cover 0..npix-1.
C9_OffsetsTile ==
    (IsHealpix /\ geom # <<>>) =>
        LET g == geom[1]
            R == 0..(g.nrings - 1)
            Range(k) == g.ofs[k]..(g.ofs[k] + g.nph[k] - 1)
        IN  /\ DOMAIN g.ofs = R
            /\ g.ofs[0] = 0
            /\ \A k \in R : g.ofs[k] = stride * SumBelow(g.nph, k)
            /\ \A k \in R : g.stride[k] = stride
            /\ (stride = 1 =>
                    /\ \A a, b \in R : a # b => Range(a) \cap Range(b) = {}
                    /\ UNION {Range(k) : k \in R} = 0..(12 * nside * nside - 1))

C9_Witness ==
    /\ fn = "whealpix" /\ nside = 2 /\ stride = 1 /\ Len(geom) = 1
    /\ geom[1].ofs[6] = 44 /\ geom[1].ofs[5] = 36

\* C10: for every ring m of the HEALPix builder the folded index northring
\* lies in 1..2*nside, so the read weight[northring-1] stays inside the
\* caller's array of length 2*nside; rings m and nrings-1-m have the same
\* northring, the same nphi and the same weight.
C10_FoldedIndexInRange ==
    (IsHealpix /\ pc \in {"whp_loop", "dealloc", "hp_dealloc", "done"}) =>
        /\ DOMAIN weight = 0..(2 * nside - 1)
        /\ \A k \in DOMAIN weight_ :
            /\ Northring(k + 1, nside) \in 1..(2 * nside)
            /\ Northring(k + 1, nside) = Northring(nrings - k, nside)
            /\ weight_[k].t # "4pi/c*indeterminate"
            /\ (fn = "whealpix" =>
                    weight_[k] = D("4pi/c*userweight", Northring(k + 1, nside) - 1, 0, 12 * nside * nside))
        /\ (geom # <<>> =>
                \A k \in 0..(nrings - 1) :
                    /\ geom[1].nph[k] = geom[1].nph[nrings - 1 - k]
                    /\ geom[1].weight[k] = geom[1].weight[nrings - 1 - k])

C10_Witness ==
    /\ fn = "whealpix" /\ nside = 2 /\ Len(geom) = 1
    /\ geom[1].weight[3].a = 3 /\ geom[1].weight[4].a = 2 /\ geom[1].weight[6].a = 0

====
